---- MODULE Spec2Model ----
(***************************************************************************)
(* Short-code allocation of yacut: URLMap.save (models.py), the API        *)
(* handler add_short_id (api_views.py), the form handler index_view and    *)
(* the file-ingestion helper _create_short_links (views.py), all running   *)
(* as concurrent requests against one URLMap table with a unique index on  *)
(* short.  The storage bridge (yandex_cloud.py: compose_path, upload_file, *)
(* upload_many) and the whole files_view run, and the resolution of a code *)
(* by follow_short and get_short_url with the download of a stored file,   *)
(* run against the same table.  Strings are sequences of one-character     *)
(* strings.  One action is one request's run from one database or network  *)
(* round trip to the next.                                                 *)
(***************************************************************************)
EXTENDS Integers, Sequences, FiniteSets, TLC

\* ------------------------------------------------------------------ bounds

\* Number of concurrent requests.
NumProcs == 2

\* Largest number of uploaded files one ingestion request turns into links.
MaxBatch == 2

\* Cap on the retry budget: the loops run Min(MAX_TRIES, TriesCap) times.
TriesCap == 2

\* ------------------------------------------------------- program constants

SHORT_AUTO_GENERATE_LENGTH == 6

MAX_TRIES == 100

\* constants.py: SHORT_PATTERN = r'^[A-Za-z0-9]{1,6}$', the upper repeat count.
SHORT_PATTERN_MAX == 6

\* api_views.py: SHORT_RE = re.compile(r'^[A-Za-z0-9]{1,16}$'), the upper count.
API_SHORT_RE_MAX == 16

\* Width of the short column, db.String(MAX_LENGHT_SHORT_LINK).
MAX_LENGHT_SHORT_LINK == 16

\* views.py imports LENGTH_SHORT from constants.py, which does not define it.
LENGTH_SHORT == SHORT_AUTO_GENERATE_LENGTH

UpperChars ==
    <<"A","B","C","D","E","F","G","H","I","J","K","L","M",
      "N","O","P","Q","R","S","T","U","V","W","X","Y","Z">>

LowerChars ==
    <<"a","b","c","d","e","f","g","h","i","j","k","l","m",
      "n","o","p","q","r","s","t","u","v","w","x","y","z">>

Digits == {"0","1","2","3","4","5","6","7","8","9"}

Range(f) == {f[i] : i \in DOMAIN f}

\* string.ascii_letters + string.digits
ALPHABET == Range(UpperChars) \cup Range(LowerChars) \cup Digits

\* The characters str.strip() removes that the inputs below use.
Whitespace == {" ", "\n", "\t"}

RESERVED_SHORTS == { <<"f","i","l","e","s">> }

\* ----------------------------------------------------------- pure functions

Min(a, b) == IF a < b THEN a ELSE b

Max(a, b) == IF a > b THEN a ELSE b

\* The retry budget the model runs with.
Tries == Min(MAX_TRIES, TriesCap)

LowerChar(c) ==
    IF \E i \in DOMAIN UpperChars : UpperChars[i] = c
    THEN LowerChars[CHOOSE i \in DOMAIN UpperChars : UpperChars[i] = c]
    ELSE c

\* str.lower()
Lower(s) == [i \in 1..Len(s) |-> LowerChar(s[i])]

RECURSIVE LStrip(_)
LStrip(s) ==
    IF s # <<>> /\ Head(s) \in Whitespace THEN LStrip(Tail(s)) ELSE s

RECURSIVE RStrip(_)
RStrip(s) ==
    IF s # <<>> /\ s[Len(s)] \in Whitespace
    THEN RStrip(SubSeq(s, 1, Len(s) - 1))
    ELSE s

\* URLMap._normalize_short: (value or "").strip(); None is the empty string.
NormalizeShort(value) == RStrip(LStrip(value))

\* re.fullmatch of ^[A-Za-z0-9]{1,max}$
FullMatch(s, max) ==
    /\ Len(s) >= 1
    /\ Len(s) <= max
    /\ \A i \in 1..Len(s) : s[i] \in ALPHABET

\* SHORT_PATTERN with its character class dropped: ^.{1,6}$
ShortReAnyChar(s) == Len(s) >= 1 /\ Len(s) <= SHORT_PATTERN_MAX

\* constants.SHORT_RE.fullmatch
ShortReFullMatch(s) == FullMatch(s, SHORT_PATTERN_MAX)

\* api_views.SHORT_RE.fullmatch
ApiShortReFullMatch(s) == FullMatch(s, API_SHORT_RE_MAX)

\* wtforms Regexp(r'^[A-Za-z0-9]+$') uses re.match: $ also matches just before
\* one trailing newline.
FormRegexpMatch(s) ==
    LET body == IF s # <<>> /\ s[Len(s)] = "\n"
                THEN SubSeq(s, 1, Len(s) - 1) ELSE s
    IN  /\ Len(body) >= 1
        /\ \A i \in 1..Len(body) : body[i] \in ALPHABET

\* short in reserved_set, the lower() forgotten.
IsReservedExact(s, reserved_set) == s \in reserved_set

\* short.lower() in reserved_set
IsReserved(s, reserved_set) == Lower(s) \in reserved_set

\* The property the claims speak of: case-insensitively equal to a member.
CaseInsensitiveReserved(s, reserved_set) ==
    \E r \in reserved_set : Lower(s) = Lower(r)

\* str.startswith(prefix)
StartsWith(s, prefix) ==
    /\ Len(s) >= Len(prefix)
    /\ SubSeq(s, 1, Len(prefix)) = prefix

HttpPrefix == <<"h","t","t","p",":","/","/">>

HttpsPrefix == <<"h","t","t","p","s",":","/","/">>

\* original.startswith(("http://", "https://"))
IsExternal(original) ==
    StartsWith(original, HttpPrefix) \/ StartsWith(original, HttpsPrefix)

\* A classification that also takes other schemes for external URLs.
ClassifyAnyScheme(original) ==
    IF \E i \in 1..Len(original) : original[i] = ":"
    THEN "ExternalRedirect" ELSE "StoragePath"

\* The classification follow_short makes of a stored original.
Classify(original) ==
    IF IsExternal(original) THEN "ExternalRedirect" ELSE "StoragePath"

\* werkzeug secure_filename keeps [A-Za-z0-9_.-].
SafeChars == ALPHABET \cup {"_", ".", "-"}

\* "_".join(filename.split()) after the path separators became spaces: each
\* run of whitespace between two words becomes one "_", those at the ends
\* disappear.
RECURSIVE JoinWords(_, _, _)
JoinWords(s, started, gap) ==
    IF s = <<>> THEN <<>>
    ELSE IF Head(s) \in Whitespace \cup {"/"}
    THEN JoinWords(Tail(s), started, started)
    ELSE (IF gap THEN <<"_">> ELSE <<>>) \o <<Head(s)>>
         \o JoinWords(Tail(s), TRUE, FALSE)

\* str.strip("._")
RECURSIVE StripDots(_)
StripDots(s) ==
    IF s # <<>> /\ Head(s) \in {".", "_"} THEN StripDots(Tail(s))
    ELSE IF s # <<>> /\ s[Len(s)] \in {".", "_"}
    THEN StripDots(SubSeq(s, 1, Len(s) - 1))
    ELSE s

\* werkzeug.utils.secure_filename
secure_filename(filename) ==
    LET words == JoinWords(filename, FALSE, FALSE)
    IN  StripDots(SelectSeq(words, LAMBDA c : c \in SafeChars))

placeholder == <<"f","i","l","e">>

HexDigits ==
    <<"0","1","2","3","4","5","6","7","8","9","a","b","c","d","e","f">>

\* A token source that returns one value every time.
Uuid4HexFixed(n) == << HexDigits[1], HexDigits[1] >>

\* The n-th value uuid.uuid4().hex takes, shortened to two hexadecimal digits:
\* uuid4 is taken never to return a value twice.
Uuid4Hex(n) ==
    << HexDigits[((n \div Len(HexDigits)) % Len(HexDigits)) + 1],
       HexDigits[(n % Len(HexDigits)) + 1] >>

\* compose_path(base_dir, filename), uid being the value uuid4().hex took.
compose_path(base_dir, filename, uid) ==
    LET safe == secure_filename(filename)
        safe_name == IF safe # <<>> THEN safe ELSE placeholder
    IN  base_dir \o <<"/">> \o uid \o <<"_">> \o safe_name

\* The message made of the first failure alone.
FirstError(errors) == IF errors = <<>> THEN <<>> ELSE Head(errors)

\* "; ".join(errors)
RECURSIVE JoinErrors(_)
JoinErrors(errors) ==
    IF errors = <<>> THEN <<>>
    ELSE IF Len(errors) = 1 THEN Head(errors)
    ELSE Head(errors) \o <<"; ">> \o JoinErrors(Tail(errors))

\* needle in text, both sequences
Contains(text, needle) ==
    \E i \in 0..(Len(text) - Len(needle)) :
        SubSeq(text, i + 1, i + Len(needle)) = needle

\* -------------------------------------------------------------------- inputs

Procs == 1..NumProcs

NoCandidate == <<>>

\* A request without url / original_link.
NoTarget == <<>>

cAb == <<"a","b">>

cFiles == <<"f","i","l","e","s">>

cFiLeS == <<"F","i","L","e","S">>

cSeven == <<"a","b","c","d","e","f","g">>

cSixteen == <<"A","b","3","d","E","f","6","h","I","j","0","l","M","n","9","p">>

cSeventeen == cSixteen \o <<"q">>

cDash == <<"a","-","b">>

cPadded == <<" ","a","b"," ">>

cBlank == <<" "," ">>

cNewline == <<"a","b","\n">>

\* custom_id values a request may carry (None and "" are both NoCandidate).
Candidates ==
    { NoCandidate, cAb, cFiles, cFiLeS, cSeven, cSixteen, cSeventeen,
      cDash, cPadded, cBlank, cNewline }

\* The candidates concurrent requests fight over.
RaceCandidates == { NoCandidate, cAb, cFiLeS, cSeven }

gOne == <<"Q","w","3","r","T","y">>

gTwo == <<"z","X","9","v","B","n">>

\* Outcomes of a code generator the model draws from.
DrawPool == { gOne, gTwo, cFiLeS }

\* A generator that ignores the length it is asked for.
RandomShortAnyLength(length) == DrawPool

\* "".join(choice(ALPHABET) for _ in range(length))
RandomShort(length) ==
    { c \in DrawPool : Len(c) = length /\ \A i \in 1..Len(c) : c[i] \in ALPHABET }

\* What a generate_short callable handed to URLMap.save may return.
GeneratorOutputs == DrawPool

\* The target (url / original_link) request p carries when it carries one.
Url(p) == IF p = 1 THEN HttpsPrefix \o <<"x">>
          ELSE IF p = 2 THEN HttpPrefix \o <<"y">>
          ELSE IF p = 3 THEN HttpsPrefix \o <<"z">>
          ELSE HttpsPrefix \o <<"w">>

\* DISK_BASE_DIR as files_view passes it on when the configuration has none.
BaseDir == <<"a","p","p",":">>

fA == <<"a">>

fSpaced == <<"a"," ","b">>

fBad == <<"?">>

fEmpty == <<>>

\* The i-th item upload_many returned to a request.
Item(i) ==
    [ filename |-> fA, disk_path |-> compose_path(BaseDir, fA, Uuid4Hex(i)) ]

\* disk_path of the i-th item upload_many returned to a request.
DiskPath(i) == Item(i).disk_path

\* ------------------------------------------------------------------- state

VARIABLES
    store,      \* the URLMap table: the committed rows
    pc,         \* where each request stands
    entry,      \* which entry point the request came through
    cand,       \* the candidate the request carries (self.short / custom_id)
    target,     \* the target the request carries (original)
    short,      \* the code the request is about to persist
    hasGen,     \* URLMap.save: generate_short is not None
    attempts,   \* URLMap.save: attempts
    tries,      \* loop counter of the running generation loop
    items,      \* _create_short_links: the items upload_many returned
    pending,    \* _create_short_links: rows added to the session, uncommitted
    rejects,    \* commits of this request the unique index rejected so far
    taken,      \* the candidate was stored when the request arrived
    overlap,    \* the request ran while another request was running
    last,       \* the request answered last: its inputs and its outcome
    tasks,      \* upload_many: the upload_file tasks of the running call
    issued,     \* compose_path: how many values uuid4 has handed out
    upload,     \* the upload_many call that ended last: its tasks, its outcome
    warm,       \* the _warm_downloads_best_effort pass that ran last
    answer,     \* what follow_short / get_short_url answered last
    transfer    \* upload_file: the response the running call got last

vars ==
    << store, pc, entry, cand, target, short, hasGen, attempts, tries,
       items, pending, rejects, taken, overlap, last,
       tasks, issued, upload, warm, answer, transfer >>

\* The variables of the storage bridge and of the resolution.
bridgeVars == << tasks, issued, upload, warm, answer, transfer >>

\* The variables of the requests in flight.
reqVars == << entry, cand, target, hasGen, attempts, taken, overlap >>

Shorts(rows) == { r.short : r \in rows }

\* URLMap.query.filter_by(short=code).first() is not None
Exists(code) == code \in Shorts(store)

\* The short column declared without unique=True.
UniqueOkNoIndex(code) == TRUE

\* The unique index on URLMap.short: the commit of a row with this code is
\* accepted.
UniqueOk(code) == ~ Exists(code)

\* URLMap.get(short) / filter_by(short=short): the rows a code resolves to.
Get(code) == { r \in store : r.short = code }

\* The code an entry point makes of the candidate it is given: save() trims
\* it, add_short_id and index_view take it as it is.
EntryCode(e, c) == IF e = "save" THEN NormalizeShort(c) ELSE c

Row(p, code) == [ short |-> code, original |-> target[p], req |-> p ]

Active(q) == pc[q] \notin {"idle", "done"}

NoRequest ==
    [ req |-> 0, entry |-> "none", cand |-> NoCandidate, target |-> NoTarget,
      hasGen |-> FALSE, attempts |-> 0, rejects |-> 0, taken |-> FALSE,
      overlap |-> FALSE, items |-> <<>>, result |-> "none" ]

\* No upload_many call has ended yet.
NoUpload ==
    [ req |-> 0, files |-> <<>>, tasks |-> <<>>, items |-> <<>>,
      ended |-> FALSE, raised |-> FALSE, message |-> <<>> ]

\* No warm-up pass has run yet.
NoWarm == [ req |-> 0, paths |-> <<>>, failed |-> {} ]

\* No resolution has been answered yet.
NoAnswer ==
    [ kind |-> "none", result |-> "none", location |-> <<>>,
      hrefFetches |-> 0, hrefError |-> <<>>, upstreamGets |-> 0,
      status |-> 0, forwarded |-> FALSE ]

\* No upload_file of a running upload_many call has got a response yet.
NoTransfer ==
    [ req |-> 0, step |-> "none", status |-> 0, href |-> FALSE,
      state |-> "none" ]

Init ==
    /\ store = {}
    /\ pc = [p \in Procs |-> "idle"]
    /\ entry = [p \in Procs |-> "none"]
    /\ cand = [p \in Procs |-> NoCandidate]
    /\ target = [p \in Procs |-> NoTarget]
    /\ short = [p \in Procs |-> NoCandidate]
    /\ hasGen = [p \in Procs |-> FALSE]
    /\ attempts = [p \in Procs |-> 0]
    /\ tries = [p \in Procs |-> 0]
    /\ items = [p \in Procs |-> <<>>]
    /\ pending = [p \in Procs |-> <<>>]
    /\ rejects = [p \in Procs |-> 0]
    /\ taken = [p \in Procs |-> FALSE]
    /\ overlap = [p \in Procs |-> FALSE]
    /\ last = NoRequest
    /\ tasks = [p \in Procs |-> <<>>]
    /\ issued = 0
    /\ upload = NoUpload
    /\ warm = NoWarm
    /\ answer = NoAnswer
    /\ transfer = NoTransfer

\* Requests are taken in the order of their numbers.
MayArrive(p) ==
    /\ pc[p] = "idle"
    /\ \A q \in Procs : q < p => pc[q] # "idle"

\* A request arrives and is answered before it touches the database.
Answer(p, e, c, t, g, a, r) ==
    /\ MayArrive(p)
    /\ pc' = [pc EXCEPT ![p] = "done"]
    /\ last' = [ req |-> p, entry |-> e, cand |-> c, target |-> t,
                 hasGen |-> g, attempts |-> a, rejects |-> 0,
                 taken |-> Exists(EntryCode(e, c)), overlap |-> FALSE,
                 items |-> <<>>, result |-> r ]
    /\ UNCHANGED << store, short, tries, items, pending, rejects, reqVars >>

\* A request arrives and goes on to its first database round trip at label.
Start(p, e, c, t, g, a, label, code) ==
    /\ UNCHANGED << items, pending >>
    /\ MayArrive(p)
    /\ pc' = [pc EXCEPT ![p] = label]
    /\ entry' = [entry EXCEPT ![p] = e]
    /\ cand' = [cand EXCEPT ![p] = c]
    /\ target' = [target EXCEPT ![p] = t]
    /\ hasGen' = [hasGen EXCEPT ![p] = g]
    /\ attempts' = [attempts EXCEPT ![p] = a]
    /\ short' = [short EXCEPT ![p] = code]
    /\ taken' = [taken EXCEPT ![p] = Exists(EntryCode(e, c))]
    /\ overlap' = [q \in Procs |->
                     IF q = p THEN \E r \in Procs : Active(r)
                     ELSE overlap[q] \/ Active(q)]
    /\ UNCHANGED << store, tries, rejects, last >>

\* The running request p ends with outcome r after n rejected commits.
Finish(p, r, n) ==
    /\ pc' = [pc EXCEPT ![p] = "done"]
    /\ last' = [ req |-> p, entry |-> entry[p], cand |-> cand[p],
                 target |-> target[p], hasGen |-> hasGen[p],
                 attempts |-> attempts[p], rejects |-> n,
                 taken |-> taken[p], overlap |-> overlap[p],
                 items |-> items[p], result |-> r ]
    /\ entry' = [entry EXCEPT ![p] = "none"]
    /\ cand' = [cand EXCEPT ![p] = NoCandidate]
    /\ target' = [target EXCEPT ![p] = NoTarget]
    /\ hasGen' = [hasGen EXCEPT ![p] = FALSE]
    /\ attempts' = [attempts EXCEPT ![p] = 0]
    /\ short' = [short EXCEPT ![p] = NoCandidate]
    /\ tries' = [tries EXCEPT ![p] = 0]
    /\ rejects' = [rejects EXCEPT ![p] = 0]
    /\ items' = [items EXCEPT ![p] = <<>>]
    /\ pending' = [pending EXCEPT ![p] = <<>>]
    /\ taken' = [taken EXCEPT ![p] = FALSE]
    /\ overlap' = [overlap EXCEPT ![p] = FALSE]

\* The running request p goes on to its next database round trip at label.
Goto(p, label, code, i, n) ==
    /\ pc' = [pc EXCEPT ![p] = label]
    /\ short' = [short EXCEPT ![p] = code]
    /\ tries' = [tries EXCEPT ![p] = i]
    /\ rejects' = [rejects EXCEPT ![p] = n]
    /\ UNCHANGED << reqVars, items, pending, last >>

\* A commit that writes over the row holding the code (an upsert).
CommittedUpsert(p, code) ==
    /\ store' = { r \in store : r.short # code } \cup {Row(p, code)}
    /\ Finish(p, "ok", rejects[p])

\* db.session.add(row); db.session.commit(): the unique index accepts the row
\* or raises IntegrityError.
Committed(p, code) ==
    /\ UniqueOk(code)
    /\ store' = store \cup {Row(p, code)}
    /\ Finish(p, "ok", rejects[p])

\* ------------------------------------------------- models.py: URLMap.save

\* save() up to its first query: normalisation, _validate_short, mode choice.
SaveBegin(p, C) ==
    /\ MayArrive(p)
    /\ \E c \in C, t \in {Url(p)}, g \in BOOLEAN, a \in {0, Tries} :
        LET s == NormalizeShort(c) IN
        IF s # <<>>
        THEN /\ g = FALSE /\ a = 0
             /\ IF ~ ShortReFullMatch(s)
                THEN Answer(p, "save", c, t, g, a, "InvalidFormat")
                ELSE IF IsReserved(s, RESERVED_SHORTS)
                THEN Answer(p, "save", c, t, g, a, "AlreadyExists")
                ELSE Start(p, "save", c, t, g, a, "save_is_taken", s)
        ELSE IF ~ g
        THEN /\ a = 0
             /\ Answer(p, "save", c, t, g, a, "GenerationExhausted")
        ELSE Start(p, "save", c, t, g, a, "save_generate", NoCandidate)

\* _is_taken(short, exclude_id=self.id), self.id being None before the commit.
SaveIsTaken(p) ==
    /\ pc[p] = "save_is_taken"
    /\ UNCHANGED store
    /\ IF Exists(short[p])
       THEN Finish(p, "AlreadyExists", rejects[p])
       ELSE Goto(p, "save_commit", short[p], 0, rejects[p])

\* db.session.add(self); _try_commit() of the explicit candidate.
SaveCommit(p) ==
    /\ pc[p] = "save_commit"
    /\ \/ Committed(p, short[p])
       \/ /\ ~ UniqueOk(short[p])
          /\ UNCHANGED store
          /\ Finish(p, "AlreadyExists", rejects[p] + 1)

\* The loop running once more: for _ in range(max(1, attempts) + 1).
NextIterationOneMore(p, n) ==
    /\ UNCHANGED store
    /\ IF tries[p] + 1 >= Max(1, attempts[p]) + 1
       THEN Finish(p, "GenerationExhausted", n)
       ELSE Goto(p, "save_generate", NoCandidate, tries[p] + 1, n)

\* End of one iteration of for _ in range(max(1, attempts)) without a commit,
\* n commits rejected so far.
NextIteration(p, n) ==
    /\ UNCHANGED store
    /\ IF tries[p] + 1 >= Max(1, attempts[p])
       THEN Finish(p, "GenerationExhausted", n)
       ELSE Goto(p, "save_generate", NoCandidate, tries[p] + 1, n)

\* One iteration of _generate_and_commit: draw, reserved check, _try_commit.
SaveGenerate(p) ==
    /\ pc[p] = "save_generate"
    /\ \E code \in GeneratorOutputs :
        IF IsReserved(code, RESERVED_SHORTS)
        THEN NextIteration(p, rejects[p])
        ELSE \/ Committed(p, code)
             \/ /\ ~ UniqueOk(code)
                /\ NextIteration(p, rejects[p] + 1)

\* ------------------------------------------ views.py: get_unique_short_id

\* Where a request goes with the code get_unique_short_id returned.
AfterLookup(p) ==
    IF pc[p] = "regen" THEN "api_recommit"
    ELSE IF entry[p] = "api" THEN "api_commit"
    ELSE "index_commit"

\* One iteration of get_unique_short_id in add_short_id or index_view: draw a
\* code and look it up.
ViewLookup(p) ==
    /\ pc[p] \in {"gen", "regen"}
    /\ UNCHANGED store
    /\ \E code \in RandomShort(LENGTH_SHORT) :
        IF ~ Exists(code)
        THEN Goto(p, AfterLookup(p), code, 0, rejects[p])
        ELSE IF tries[p] + 1 >= Tries
        THEN Finish(p, "GenerationExhausted", rejects[p])
        ELSE Goto(p, pc[p], NoCandidate, tries[p] + 1, rejects[p])

\* ------------------------------------------- api_views.py: add_short_id

\* add_short_id up to its first query.
ApiBegin(p, C) ==
    /\ MayArrive(p)
    /\ \E c \in C, t \in {Url(p), NoTarget} :
        IF t = NoTarget
        THEN /\ c = NoCandidate
             /\ Answer(p, "api", c, t, FALSE, 0, "BadRequest")
        ELSE IF c # NoCandidate
        THEN IF ~ ApiShortReFullMatch(c)
             THEN Answer(p, "api", c, t, FALSE, 0, "InvalidFormat")
             ELSE IF IsReserved(c, RESERVED_SHORTS)
             THEN Answer(p, "api", c, t, FALSE, 0, "AlreadyExists")
             ELSE Start(p, "api", c, t, FALSE, 0, "api_precheck", c)
        ELSE Start(p, "api", c, t, FALSE, 0, "gen", NoCandidate)

\* URLMap.query.filter_by(short=custom).first()
ApiPrecheck(p) ==
    /\ pc[p] = "api_precheck"
    /\ UNCHANGED store
    /\ IF Exists(short[p])
       THEN Finish(p, "AlreadyExists", rejects[p])
       ELSE Goto(p, "api_commit", short[p], 0, rejects[p])

\* The first db.session.commit() and its except IntegrityError branch.
ApiCommit(p) ==
    /\ pc[p] = "api_commit"
    /\ \/ Committed(p, short[p])
       \/ /\ ~ UniqueOk(short[p])
          /\ UNCHANGED store
          /\ IF cand[p] # NoCandidate
             THEN Finish(p, "AlreadyExists", rejects[p] + 1)
             ELSE Goto(p, "regen", NoCandidate, 0, rejects[p] + 1)

\* The second db.session.commit(), outside any try.
ApiRecommit(p) ==
    /\ pc[p] = "api_recommit"
    /\ \/ Committed(p, short[p])
       \/ /\ ~ UniqueOk(short[p])
          /\ UNCHANGED store
          /\ Finish(p, "IntegrityError", rejects[p] + 1)

\* ------------------------------------- forms.py / views.py: index_view

\* Optional(): empty or whitespace-only input ends the validation chain.
FormOptionalStops(c) == NormalizeShort(c) = <<>>

\* Length(max=SHORT_AUTO_GENERATE_LENGTH) or Regexp(...) reports an error.
FormFormatError(c) ==
    \/ Len(c) > SHORT_AUTO_GENERATE_LENGTH
    \/ ~ FormRegexpMatch(c)

\* URLMapForm.validate_custom_id reports an error.
FormExistsError(c) ==
    \/ IsReserved(c, RESERVED_SHORTS)
    \/ Exists(c)

\* index_view up to db.session.commit(): form.validate_on_submit() and the
\* choice of the code.
IndexBegin(p, C) ==
    /\ MayArrive(p)
    /\ \E c \in C, t \in {Url(p), NoTarget} :
        IF t = NoTarget
        THEN /\ c = NoCandidate
             /\ Answer(p, "index", c, t, FALSE, 0, "BadRequest")
        ELSE IF ~ FormOptionalStops(c) /\ FormFormatError(c)
        THEN Answer(p, "index", c, t, FALSE, 0, "InvalidFormat")
        ELSE IF ~ FormOptionalStops(c) /\ FormExistsError(c)
        THEN Answer(p, "index", c, t, FALSE, 0, "AlreadyExists")
        ELSE IF c # NoCandidate
        THEN Start(p, "index", c, t, FALSE, 0, "index_commit", c)
        ELSE Start(p, "index", c, t, FALSE, 0, "gen", NoCandidate)

\* db.session.add(url_map); db.session.commit(), outside any try.
IndexCommit(p) ==
    /\ pc[p] = "index_commit"
    /\ \/ Committed(p, short[p])
       \/ /\ ~ UniqueOk(short[p])
          /\ UNCHANGED store
          /\ Finish(p, "IntegrityError", rejects[p] + 1)

\* ------------------------------------- views.py: _create_short_links

\* _create_short_links is entered with the items upload_many returned.
FilesBegin(p) ==
    /\ MayArrive(p)
    /\ \E k \in 1..MaxBatch :
        /\ pc' = [pc EXCEPT ![p] = "files_gen"]
        /\ entry' = [entry EXCEPT ![p] = "files"]
        /\ items' = [items EXCEPT ![p] = [i \in 1..k |-> Item(i)]]
        /\ taken' = [taken EXCEPT ![p] = FALSE]
        /\ overlap' = [q \in Procs |->
                         IF q = p THEN \E r \in Procs : Active(r)
                         ELSE overlap[q] \/ Active(q)]
        /\ UNCHANGED << store, cand, target, short, hasGen, attempts, tries,
                        pending, rejects, last >>

\* The rows the session would flush violate the unique index.
FlushRejected(p) == \E i \in DOMAIN pending[p] : ~ UniqueOk(pending[p][i].short)

\* One iteration of get_unique_short_id inside the loop over the items: the
\* query first flushes the rows added so far (autoflush), then looks the drawn
\* code up among the committed rows and the session's own; a free code is
\* added to the session with the item's disk_path.
FilesLookup(p) ==
    /\ pc[p] = "files_gen"
    /\ UNCHANGED store
    /\ IF FlushRejected(p)
       THEN Finish(p, "IntegrityError", rejects[p] + 1)
       ELSE \E code \in RandomShort(LENGTH_SHORT) :
            IF ~ Exists(code) /\ code \notin Shorts(Range(pending[p]))
            THEN /\ pending' = [pending EXCEPT ![p] =
                       Append(@, [ short |-> code,
                                   original |->
                                       items[p][Len(@) + 1].disk_path,
                                   req |-> p ])]
                 /\ pc' = [pc EXCEPT ![p] =
                       IF Len(pending[p]) + 1 = Len(items[p])
                       THEN "files_commit" ELSE "files_gen"]
                 /\ tries' = [tries EXCEPT ![p] = 0]
                 /\ UNCHANGED << short, rejects, items, reqVars, last >>
            ELSE IF tries[p] + 1 >= Tries
            THEN Finish(p, "GenerationExhausted", rejects[p])
            ELSE Goto(p, pc[p], NoCandidate, tries[p] + 1, rejects[p])

\* A commit after every add: the rows the unique index accepts stay.
FilesCommitEachRow(p) ==
    /\ pc[p] = "files_commit"
    /\ store' = store \cup { r \in Range(pending[p]) : UniqueOk(r.short) }
    /\ Finish(p, IF FlushRejected(p) THEN "IntegrityError" ELSE "ok",
              rejects[p] + (IF FlushRejected(p) THEN 1 ELSE 0))

\* The single db.session.commit() after the loop, outside any try.
FilesCommit(p) ==
    /\ pc[p] = "files_commit"
    /\ IF FlushRejected(p)
       THEN /\ UNCHANGED store
            /\ Finish(p, "IntegrityError", rejects[p] + 1)
       ELSE /\ store' = store \cup Range(pending[p])
            /\ Finish(p, "ok", rejects[p])

\* ------------------------------------------ yandex_cloud.py: upload_many

\* The display names of the files a request uploads (fEmpty: no filename).
FileNames == { fSpaced, fEmpty }

\* The file lists files_view hands to upload_many.
Batches == UNION { [1..n -> FileNames] : n \in 1..MaxBatch }

\* The file lists of request p: the last request uploads any batch, the
\* requests before it one file.
BatchesOf(p) == IF p = NumProcs THEN Batches ELSE { << fSpaced >> }

\* The call got no response: the timeout fired or the connection failed.
NoResponse == 0

\* Responses of GET /resources/upload: the status and whether the JSON body
\* carries an href (an error body carries none). A 3xx response reaches the
\* code when it has no Location header for aiohttp to follow.
UploadHrefResponses ==
    { [ status |-> st, href |-> h ] : st \in {200, 302}, h \in BOOLEAN }
    \cup { [ status |-> 404, href |-> FALSE ],
           [ status |-> NoResponse, href |-> FALSE ] }

\* Statuses of the PUT of the bytes to the href.
PutStatuses == { 201, 202, 200, NoResponse }

\* str(status) inside the messages.
Str(n) ==
    CASE n = 200 -> "200" [] n = 201 -> "201" [] n = 202 -> "202"
      [] n = 302 -> "302" [] n = 404 -> "404" [] n = 500 -> "500"

\* str(asyncio.TimeoutError())
TimeoutText == <<>>

\* The call returned, no exception was raised.
NoError == << "no error" >>

\* _get_upload_href(session, token, path) on the response resp: the href is
\* returned (NoError) or an exception with this text is raised.
get_upload_href(path, resp) ==
    IF resp.status = NoResponse THEN TimeoutText
    ELSE IF resp.status >= 400
    THEN <<"Failed to get upload href for ">> \o path
         \o <<": ", Str(resp.status)>>
    ELSE IF ~ resp.href THEN <<"Upload href missing for ">> \o path
    ELSE NoError

\* The check of put_resp.status in upload_file.
put_bytes(filename, status) ==
    IF status = NoResponse THEN TimeoutText
    ELSE IF status \notin {201, 202}
    THEN <<"Failed to upload ">> \o filename \o <<": ", Str(status)>>
    ELSE NoError

\* The upload_file coroutine of one file, up to its first await.
NewTask(base_dir, filename, uid) ==
    [ filename |-> filename,
      path |-> compose_path(base_dir, filename, uid),
      state |-> "href", error |-> <<>> ]

\* tasks = [upload_file(...) for f in files if f and getattr(f, "filename", "")]
RECURSIVE NewTasks(_, _, _)
NewTasks(base_dir, files, n) ==
    IF files = <<>> THEN <<>>
    ELSE IF Head(files) = fEmpty THEN NewTasks(base_dir, Tail(files), n)
    ELSE << NewTask(base_dir, Head(files), Uuid4Hex(n)) >>
         \o NewTasks(base_dir, Tail(files), n + 1)

Terminal(t) == t.state \in {"done", "failed"}

\* asyncio.gather(*tasks) without return_exceptions: the first exception ends
\* the wait.
GatherReadyFirstException(ts) ==
    \/ \A i \in DOMAIN ts : Terminal(ts[i])
    \/ \E i \in DOMAIN ts : ts[i].state = "failed"

\* asyncio.gather(*tasks, return_exceptions=True) returns: every task has
\* returned or raised.
GatherReady(ts) == \A i \in DOMAIN ts : Terminal(ts[i])

UploadItemOf(t) == [ filename |-> t.filename, disk_path |-> t.path ]

\* items with the exceptions kept in the list.
GatheredItemsAll(ts) == [ i \in 1..Len(ts) |-> UploadItemOf(ts[i]) ]

\* items: the UploadItem results, in the order of the tasks.
GatheredItems(ts) ==
    LET ok == SelectSeq(ts, LAMBDA t : t.state = "done")
    IN  [ i \in 1..Len(ok) |-> UploadItemOf(ok[i]) ]

\* errors: str(result) of the exceptions, in the order of the tasks.
GatheredErrors(ts) ==
    LET bad == SelectSeq(ts, LAMBDA t : t.state = "failed")
    IN  [ i \in 1..Len(bad) |-> bad[i].error ]

\* if errors: one failure fails the batch.
UploadRaisesOnAnyError(errors, its) == errors # <<>>

\* upload_many without its raise: nothing uploaded is an empty list.
UploadNeverRaises(errors, its) == FALSE

\* if errors and not items
UploadRaises(errors, its) == errors # <<>> /\ its = <<>>

\* While request p is uploading or warming up, which touches nothing the
\* other requests see, it alone takes steps.
Quiet(p) == \A q \in Procs \ {p} : pc[q] \notin {"upload", "files_warm"}

\* files_view up to asyncio.gather inside upload_many: the token check and the
\* creation of the tasks.
IngestBegin(p) ==
    /\ MayArrive(p)
    /\ Quiet(p)
    /\ \E files \in BatchesOf(p), token \in BOOLEAN :
        IF ~ token
        THEN /\ Answer(p, "files", NoCandidate, NoTarget, FALSE, 0, "NoToken")
             /\ UNCHANGED bridgeVars
        ELSE LET ts == NewTasks(BaseDir, files, issued) IN
             /\ Start(p, "files", NoCandidate, NoTarget, FALSE, 0, "upload",
                      NoCandidate)
             /\ tasks' = [tasks EXCEPT ![p] = ts]
             /\ issued' = issued + Len(ts)
             /\ upload' = [ NoUpload EXCEPT !.req = p, !.files = files ]
             /\ warm' = NoWarm
             /\ transfer' = NoTransfer
             /\ UNCHANGED answer

\* A step of request p that touches nothing but its tasks: task i, having got
\* the response tr, goes on as t.
TaskStep(p, i, t, tr) ==
    /\ tasks' = [tasks EXCEPT ![p][i] = t]
    /\ transfer' = [ tr EXCEPT !.req = p, !.state = t.state ]
    /\ UNCHANGED << store, pc, short, tries, items, pending, rejects, reqVars,
                    last, issued, upload, warm, answer >>

\* upload_file of task i gets the answer to its upload-href request.
GetUploadHref(p, i) ==
    /\ pc[p] = "upload"
    /\ i \in DOMAIN tasks[p]
    /\ tasks[p][i].state = "href"
    /\ \E resp \in UploadHrefResponses :
        LET err == get_upload_href(tasks[p][i].path, resp) IN
        TaskStep(p, i,
            IF err = NoError
            THEN [ tasks[p][i] EXCEPT !.state = "put" ]
            ELSE [ tasks[p][i] EXCEPT !.state = "failed", !.error = err ],
            [ NoTransfer EXCEPT !.step = "href", !.status = resp.status,
                                !.href = resp.href ])

\* upload_file of task i gets the answer to the PUT of its bytes.
PutBytes(p, i) ==
    /\ pc[p] = "upload"
    /\ i \in DOMAIN tasks[p]
    /\ tasks[p][i].state = "put"
    /\ \E status \in PutStatuses :
        LET err == put_bytes(tasks[p][i].filename, status) IN
        TaskStep(p, i,
            IF err = NoError
            THEN [ tasks[p][i] EXCEPT !.state = "done" ]
            ELSE [ tasks[p][i] EXCEPT !.state = "failed", !.error = err ],
            [ NoTransfer EXCEPT !.step = "put", !.status = status ])

\* upload_many from the return of asyncio.gather on, and files_view up to the
\* warm-up: the results are sorted into items and errors; YandexDiskError is
\* raised if nothing succeeded, and files_view answers with the message.
Gather(p) ==
    /\ pc[p] = "upload"
    /\ GatherReady(tasks[p])
    /\ LET its == GatheredItems(tasks[p])
           errors == GatheredErrors(tasks[p])
       IN  /\ tasks' = [tasks EXCEPT ![p] = <<>>]
           /\ transfer' = NoTransfer
           /\ UNCHANGED << store, issued, warm, answer >>
           /\ IF UploadRaises(errors, its)
              THEN /\ upload' = [ upload EXCEPT !.req = p,
                                    !.tasks = tasks[p], !.items = <<>>,
                                    !.ended = TRUE, !.raised = TRUE,
                                    !.message = JoinErrors(errors) ]
                   /\ Finish(p, "StorageError", rejects[p])
              ELSE /\ upload' = [ upload EXCEPT !.req = p,
                                    !.tasks = tasks[p], !.items = its,
                                    !.ended = TRUE, !.raised = FALSE,
                                    !.message = <<>> ]
                   /\ items' = [items EXCEPT ![p] = its]
                   /\ pc' = [pc EXCEPT ![p] = "files_warm"]
                   /\ UNCHANGED << short, tries, pending, rejects, reqVars,
                                   last >>

\* ------------------------------- views.py: _warm_downloads_best_effort

\* A warm-up pass that lets the first exception through.
WarmOutcomePropagates(failed) == IF failed = {} THEN "ok" ELSE "StorageError"

\* What files_view sees of a warm-up pass in which the fetches in failed
\* raised: gather returns the exceptions as results, and the try swallows
\* whatever asyncio.run raises.
WarmOutcome(failed) == "ok"

\* _warm_downloads_best_effort(token, items): one get_download_url per item,
\* any subset of them failing; then files_view enters _create_short_links.
Warm(p) ==
    /\ pc[p] = "files_warm"
    /\ UNCHANGED << store, tasks, issued, upload, answer, transfer >>
    /\ \E failed \in SUBSET (DOMAIN items[p]) :
        /\ warm' = [ req |-> p,
                     paths |-> [ i \in DOMAIN items[p] |->
                                   items[p][i].disk_path ],
                     failed |-> failed ]
        /\ IF WarmOutcome(failed) = "ok"
           THEN /\ pc' = [pc EXCEPT ![p] =
                      IF items[p] = <<>> THEN "files_commit" ELSE "files_gen"]
                /\ UNCHANGED << short, tries, items, pending, rejects,
                                reqVars, last >>
           ELSE Finish(p, WarmOutcome(failed), rejects[p])

\* -------------------------- views.py: follow_short / api_views.py: get

gLower == Lower(gOne)

\* The short_id values a resolution may ask for.
ResolveCodes == { cAb, cFiles, cFiLeS, gOne, gTwo, gLower }

\* Responses of GET /resources/download, as those of /resources/upload.
DownloadHrefResponses == UploadHrefResponses

\* _get_download_href(session, token, path) on the response resp.
get_download_href(path, resp) ==
    IF resp.status = NoResponse THEN TimeoutText
    ELSE IF resp.status >= 400
    THEN <<"Failed to get download href for ">> \o path
         \o <<": ", Str(resp.status)>>
    ELSE IF ~ resp.href THEN <<"Download href missing for ">> \o path
    ELSE NoError

\* Statuses of the streaming GET of the href (NoResponse: RequestException).
UpstreamStatuses == { 200, 404, 500, NoResponse }

\* A proxy that only gives up on server errors.
UpstreamFailsOnServerError(status) == status = NoResponse \/ status >= 500

\* _proxy_yadisk_download gives up: abort(502).
UpstreamFails(status) == status = NoResponse \/ status >= 400

\* URLMap.query.filter_by(short=short_id).first(): a row of this code.
First(code) == CHOOSE r \in Get(code) : TRUE

\* The answer of a resolution that did not reach the storage bridge.
Resolved(kind, result, location) ==
    [ NoAnswer EXCEPT !.kind = kind, !.result = result,
                      !.location = location ]

\* The answer of a resolution that went through _serve_yadisk_path: the one
\* href fetch and its error, the upstream GETs made and the status of the
\* last, and whether body bytes were forwarded.
Served(kind, result, path, err, gets, status, bytes) ==
    [ kind |-> kind, result |-> result, location |-> path,
      hrefFetches |-> 1, hrefError |-> err, upstreamGets |-> gets,
      status |-> status, forwarded |-> bytes ]

\* Request p is a resolution of code that is answered with a.
Reply(p, e, code, a) ==
    /\ Answer(p, e, code, NoTarget, FALSE, 0, a.result)
    /\ answer' = a
    /\ UNCHANGED << tasks, issued, upload, warm, transfer >>

\* _serve_yadisk_path(original_path, token) and _proxy_yadisk_download: the
\* href is fetched, then either handed out as a redirect or fetched and
\* streamed.
ServeYadiskPath(p, code, kind, path) ==
    \E resp \in DownloadHrefResponses :
        LET err == get_download_href(path, resp) IN
        IF err # NoError
        THEN Reply(p, "resolve", code,
                   Served(kind, "UpstreamError", path, err, 0, NoResponse,
                          FALSE))
        ELSE \E direct \in BOOLEAN, status \in UpstreamStatuses :
            IF direct
            THEN /\ status = NoResponse
                 /\ Reply(p, "resolve", code,
                          Served(kind, "DirectRedirect", path, err, 0,
                                 NoResponse, FALSE))
            ELSE IF UpstreamFails(status)
            THEN Reply(p, "resolve", code,
                       Served(kind, "UpstreamError", path, err, 1, status,
                              FALSE))
            ELSE Reply(p, "resolve", code,
                       Served(kind, "Stream", path, err, 1, status, TRUE))

\* follow_short(short_id)
FollowShort(p) ==
    /\ MayArrive(p)
    /\ \E code \in ResolveCodes :
        IF Lower(code) = cFiles
        THEN Reply(p, "resolve", code,
                   Resolved("IngestRoute", "Redirect", <<>>))
        ELSE IF ~ Exists(code)
        THEN Reply(p, "resolve", code,
                   Resolved("NotFound", "NotFound", <<>>))
        ELSE LET original == First(code).original
                 kind == Classify(original)
             IN  IF kind = "ExternalRedirect"
                 THEN Reply(p, "resolve", code,
                            Resolved(kind, "Redirect", original))
                 ELSE \E token \in BOOLEAN :
                     IF ~ token
                     THEN Reply(p, "resolve", code,
                                Resolved(kind, "ServerError", <<>>))
                     ELSE ServeYadiskPath(p, code, kind, original)

\* get_short_url(short_id)
GetShortUrl(p) ==
    /\ MayArrive(p)
    /\ \E code \in ResolveCodes :
        IF ~ Exists(code)
        THEN Reply(p, "api_get", code,
                   Resolved("NotFound", "NotFound", <<>>))
        ELSE Reply(p, "api_get", code,
                   Resolved("Found", "Found", First(code).original))

\* ----------------------------------------------------------- specification

\* One step of request p, its candidate drawn from C.
Step(p, C) ==
    \/ SaveBegin(p, C) /\ UNCHANGED bridgeVars
    \/ SaveIsTaken(p) /\ UNCHANGED bridgeVars
    \/ SaveCommit(p) /\ UNCHANGED bridgeVars
    \/ SaveGenerate(p) /\ UNCHANGED bridgeVars
    \/ ApiBegin(p, C) /\ UNCHANGED bridgeVars
    \/ ApiPrecheck(p) /\ UNCHANGED bridgeVars
    \/ ApiCommit(p) /\ UNCHANGED bridgeVars
    \/ ApiRecommit(p) /\ UNCHANGED bridgeVars
    \/ IndexBegin(p, C) /\ UNCHANGED bridgeVars
    \/ IndexCommit(p) /\ UNCHANGED bridgeVars
    \/ ViewLookup(p) /\ UNCHANGED bridgeVars
    \/ FilesBegin(p) /\ UNCHANGED bridgeVars
    \/ FilesLookup(p) /\ UNCHANGED bridgeVars
    \/ FilesCommit(p) /\ UNCHANGED bridgeVars

\* NumProcs concurrent requests over the contested candidates.
Next == \E p \in Procs : Step(p, RaceCandidates)

Spec == Init /\ [][Next]_vars

\* The last request draws its candidate from the whole pool, the requests
\* before it from the contested candidates.
NextInputs ==
    \E p \in Procs :
        Step(p, IF p = NumProcs THEN Candidates ELSE RaceCandidates)

SpecInputs == Init /\ [][NextInputs]_vars

\* The candidate of the index_view requests that run next to the ingestions.
BridgeCandidates == { cAb }

\* One step of request p where files are ingested and codes are resolved; the
\* resolutions, which change nothing a later request sees, come last.
BridgeStep(p) ==
    \/ IngestBegin(p)
    \/ \E i \in 1..MaxBatch : GetUploadHref(p, i)
    \/ \E i \in 1..MaxBatch : PutBytes(p, i)
    \/ Gather(p)
    \/ Warm(p)
    \/ Quiet(p) /\ FilesLookup(p) /\ UNCHANGED bridgeVars
    \/ Quiet(p) /\ FilesCommit(p) /\ UNCHANGED bridgeVars
    \/ Quiet(p) /\ IndexBegin(p, BridgeCandidates) /\ UNCHANGED bridgeVars
    \/ Quiet(p) /\ IndexCommit(p) /\ UNCHANGED bridgeVars
    \/ Quiet(p) /\ p = NumProcs /\ FollowShort(p)
    \/ Quiet(p) /\ p = NumProcs /\ GetShortUrl(p)

\* NumProcs requests: file ingestions, index_view requests and resolutions.
NextBridge == \E p \in Procs : BridgeStep(p)

SpecBridge == Init /\ [][NextBridge]_vars

\* One step of a URLMap.save call of request p.
SaveStep(p) ==
    \/ SaveBegin(p, RaceCandidates) /\ UNCHANGED bridgeVars
    \/ SaveIsTaken(p) /\ UNCHANGED bridgeVars
    \/ SaveCommit(p) /\ UNCHANGED bridgeVars
    \/ SaveGenerate(p) /\ UNCHANGED bridgeVars

\* NumProcs concurrent URLMap.save calls.
NextSave == \E p \in Procs : SaveStep(p)

\* Every call runs in a request of its own and waits for nothing but the
\* answer of the database to its query or commit: a call that can take a step
\* takes it.
SpecSave ==
    Init /\ [][NextSave]_vars /\ \A p \in Procs : WF_vars(SaveStep(p))

\* ------------------------------------------------------------------ claims

\* The request answered last carried an explicit candidate (the code it asked
\* for is not empty).
LastExplicit ==
    /\ last.entry \in {"save", "api", "index"}
    /\ EntryCode(last.entry, last.cand) # NoCandidate

\* The request answered last ran in generated mode.
LastGenerated ==
    \/ last.entry = "files"
    \/ /\ last.entry \in {"save", "api", "index"}
       /\ EntryCode(last.entry, last.cand) = NoCandidate
       /\ last.target # NoTarget

LastCode == EntryCode(last.entry, last.cand)

\* What the claims call a valid candidate: ^[A-Za-z0-9]{1,16}$.
ValidFormat(s) ==
    /\ Len(s) \in 1..MAX_LENGHT_SHORT_LINK
    /\ \A i \in 1..Len(s) : s[i] \in ALPHABET

\* The request answered last left no row of its own in the store.
LastStoredNothing == \A r \in store : r.req # last.req

\* C1: in every reachable state, under every interleaving of the concurrent
\* requests (generated and explicit mode mixed), no two committed rows have the
\* same short code.
C1_UniqueShorts ==
    \A r1 \in store : \A r2 \in store : r1.short = r2.short => r1 = r2

\* C1 witness: a generated-mode request ran concurrently with another one,
\* had a commit rejected by the unique index, and the store holds two rows.
C1_Witness ==
    /\ LastGenerated
    /\ last.overlap
    /\ last.rejects >= 1
    /\ Cardinality(store) >= 2

\* C2: a request with an explicit candidate whose commit the unique index
\* rejected (it passed the pre-check and lost the race) ends with
\* AlreadyExists, exactly one row holds the code, and no row of the loser is
\* stored.
C2_LoserAlreadyExists ==
    (LastExplicit /\ last.rejects >= 1) =>
        /\ last.result = "AlreadyExists"
        /\ Cardinality(Get(LastCode)) = 1
        /\ LastStoredNothing

\* C3: a generated-mode request never surfaces the unique index's rejection:
\* it ends with a committed row or, its tries used up, GenerationExhausted.
C3_NeverSurfacesViolation ==
    LastGenerated => last.result \in {"ok", "GenerationExhausted"}

\* C4: an explicit candidate of valid format that is not reserved and not
\* stored, allocated without a concurrent request, is committed, and the code
\* then resolves to exactly one row whose original is the request's target.
C4_ValidCandidateRoundTrip ==
    ( /\ LastExplicit
      /\ last.target # NoTarget
      /\ ValidFormat(LastCode)
      /\ ~ CaseInsensitiveReserved(LastCode, RESERVED_SHORTS)
      /\ ~ last.taken
      /\ ~ last.overlap ) =>
        /\ last.result = "ok"
        /\ Get(LastCode) # {}
        /\ \A r \in Get(LastCode) : r.original = last.target

\* C5 as written: every non-empty explicit candidate that does not fully match
\* the format regex fails with InvalidFormat and leaves no row.
C5_RawCandidateRejected ==
    ( /\ last.entry \in {"save", "api", "index"}
      /\ last.target # NoTarget
      /\ last.cand # NoCandidate
      /\ ~ ValidFormat(last.cand) ) =>
        /\ last.result = "InvalidFormat"
        /\ LastStoredNothing

\* C5 amended: every explicit candidate that is non-empty after trimming
\* surrounding whitespace and then does not fully match the format regex fails
\* with InvalidFormat and leaves no row in the store.
C5_TrimmedCandidateRejected ==
    ( /\ last.entry \in {"save", "api", "index"}
      /\ last.target # NoTarget
      /\ NormalizeShort(last.cand) # NoCandidate
      /\ ~ ValidFormat(NormalizeShort(last.cand)) ) =>
        /\ last.result = "InvalidFormat"
        /\ LastStoredNothing

\* C5 witness: a candidate with a character outside the alphabet was rejected
\* while the store held rows.
C5_Witness ==
    /\ last.cand = cDash
    /\ last.result = "InvalidFormat"
    /\ store # {}

\* C6: every explicit candidate case-insensitively equal to a reserved word
\* fails with AlreadyExists and leaves no row in the store.
C6_ReservedRejected ==
    ( /\ last.entry \in {"save", "api", "index"}
      /\ last.target # NoTarget
      /\ CaseInsensitiveReserved(last.cand, RESERVED_SHORTS) ) =>
        /\ last.result = "AlreadyExists"
        /\ LastStoredNothing

\* C6 witness: a mixed-case spelling of a reserved word was rejected by save.
C6_Witness ==
    /\ last.entry = "save"
    /\ last.cand = cFiLeS
    /\ last.result = "AlreadyExists"

\* C7: of two allocations of the same valid explicit candidate made one after
\* the other, the first (the code not yet stored) commits a row with its
\* target, and the second (the code stored) fails with AlreadyExists and leaves
\* the single row of the first.
C7_SecondAllocationFails ==
    ( /\ LastExplicit
      /\ last.target # NoTarget
      /\ ValidFormat(LastCode)
      /\ ~ CaseInsensitiveReserved(LastCode, RESERVED_SHORTS)
      /\ ~ last.overlap ) =>
        IF last.taken
        THEN /\ last.result = "AlreadyExists"
             /\ Cardinality(Get(LastCode)) = 1
             /\ LastStoredNothing
        ELSE /\ last.result = "ok"
             /\ Get(LastCode) =
                  { [ short |-> LastCode, original |-> last.target,
                      req |-> last.req ] }

\* The retry budget of the request answered last.
LastBudget ==
    IF last.entry = "save" THEN Max(1, last.attempts) ELSE Tries

\* C8: a request ends with GenerationExhausted only after the unique index
\* rejected as many commits as its retry budget allows, and then it leaves no
\* row.
C8_ExhaustedOnlyByRejections ==
    last.result = "GenerationExhausted" =>
        /\ last.rejects >= LastBudget
        /\ LastStoredNothing

\* C9: reserved draws consume no try: a generated-mode save with a generator
\* that had no commit rejected ends with a committed row, however many
\* reserved words the generator returned first.
C9_ReservedDrawsAreFree ==
    ( /\ last.entry = "save"
      /\ EntryCode(last.entry, last.cand) = NoCandidate
      /\ last.hasGen
      /\ last.rejects = 0 ) =>
        last.result = "ok"

\* C10: in every reachable state no committed row has a short code that is
\* case-insensitively equal to a reserved word, whichever entry point wrote it.
C10_NoReservedStored ==
    \A r \in store : ~ CaseInsensitiveReserved(r.short, RESERVED_SHORTS)

\* C10 witness: a row written by file ingestion under a generated code is
\* stored, and a request that asked for a reserved word was turned away.
C10_Witness ==
    /\ \E r \in store : r.original = DiskPath(1)
    /\ last.result = "AlreadyExists"
    /\ last.cand = cFiLeS

\* C11: once a row is committed, no later step of any request (allocation in
\* either mode, a rejected or retried commit, ingestion) changes its short or
\* its original or removes it: every step leaves the committed rows in place.
C11_EntriesOnlyGrow == [][store \subseteq store']_vars

\* C11 witness: after another request committed a row, the request answered
\* last had a commit rejected and left no row, and the earlier row is stored.
C11_Witness ==
    /\ last.req # 0
    /\ last.rejects >= 1
    /\ LastStoredNothing
    /\ \E r \in store : r.req # last.req

\* The request answered last was a resolution through follow_short or
\* get_short_url, and its answer is the one on record.
LastResolve == last.entry \in {"resolve", "api_get"}

\* An original that starts with http:// or https://.
ExternalUrl(original) ==
    \/ /\ Len(original) >= 7
       /\ SubSeq(original, 1, 7) = <<"h","t","t","p",":","/","/">>
    \/ /\ Len(original) >= 8
       /\ SubSeq(original, 1, 8) = <<"h","t","t","p","s",":","/","/">>

\* What follow_short must have answered for a stored code: an external URL is
\* an ExternalRedirect to it; any other original is a StoragePath, handed to
\* the storage bridge if handed is required.
ClassifiedAs(original, handed) ==
    IF ExternalUrl(original)
    THEN /\ answer.kind = "ExternalRedirect"
         /\ answer.location = original
    ELSE /\ answer.kind = "StoragePath"
         /\ handed => (answer.hrefFetches = 1 /\ answer.location = original)

\* C12 as written: a resolution of a code no row matches exactly is answered
\* NotFound; of a code whose original starts with http:// or https://,
\* ExternalRedirect to that URL; of any other stored code, StoragePath with
\* the path handed to the storage bridge.
C12_ResolveClassifies ==
    LastResolve =>
        /\ ~ last.taken => answer.kind = "NotFound"
        /\ (last.taken /\ last.entry = "resolve") =>
               ClassifiedAs(First(last.cand).original, TRUE)

\* C12 amended: a resolution of a code that no row matches exactly and that
\* is not case-insensitively the reserved word is answered NotFound; of a
\* code whose original starts with http:// or https://, ExternalRedirect to
\* that URL; of any other stored code, StoragePath, the path being handed to
\* the storage bridge unless no storage token is configured, which ends the
\* request with a server error.
C12_ResolveClassifiesUnreserved ==
    LastResolve =>
        /\ (~ last.taken
            /\ ~ CaseInsensitiveReserved(last.cand, RESERVED_SHORTS)) =>
               answer.kind = "NotFound"
        /\ (last.taken /\ last.entry = "resolve") =>
               ClassifiedAs(First(last.cand).original,
                            answer.result # "ServerError")

\* C12 witness: the code of a stored storage path was resolved, classified
\* as StoragePath, and its path went to the bridge.
C12_Witness ==
    /\ last.entry = "resolve"
    /\ last.taken
    /\ answer.kind = "StoragePath"
    /\ answer.hrefFetches = 1
    /\ answer.location = First(last.cand).original

\* The tasks of the upload_many call that ended last which returned an
\* UploadItem, and those which raised.
UploadedOk == { i \in DOMAIN upload.tasks : upload.tasks[i].state = "done" }

UploadedBad == { i \in DOMAIN upload.tasks : upload.tasks[i].state = "failed" }

\* C13: an upload_many call in which at least one upload succeeded returns
\* without error exactly one UploadItem per successful upload, carrying its
\* file name and path, and none for a failed upload.
C13_PartialSuccessReturned ==
    (upload.ended /\ UploadedOk # {}) =>
        /\ ~ upload.raised
        /\ Len(upload.items) = Cardinality(UploadedOk)
        /\ \A i \in UploadedOk : \E j \in DOMAIN upload.items :
               upload.items[j] = [ filename |-> upload.tasks[i].filename,
                                   disk_path |-> upload.tasks[i].path ]
        /\ \A i \in UploadedBad : \A j \in DOMAIN upload.items :
               upload.items[j].disk_path # upload.tasks[i].path

\* C13 witness: of two uploads the first failed and the second succeeded, and
\* the call returned the one item.
C13_Witness ==
    /\ upload.ended
    /\ Len(upload.tasks) = 2
    /\ UploadedBad = {1}
    /\ UploadedOk = {2}
    /\ Len(upload.items) = 1

\* C14: an upload_many call raises YandexDiskError exactly when it had uploads
\* and every one of them failed; it then returns no item, and its message
\* contains the text of every failure.
C14_TotalFailureRaises ==
    upload.ended =>
        /\ upload.raised <=> (upload.tasks # <<>> /\ UploadedOk = {})
        /\ upload.raised =>
               /\ upload.items = <<>>
               /\ \A i \in UploadedBad :
                      Contains(upload.message, upload.tasks[i].error)

\* C14 witness: two uploads failed with different errors and the call raised.
C14_Witness ==
    /\ upload.raised
    /\ Len(upload.tasks) = 2
    /\ upload.tasks[1].error # upload.tasks[2].error
    /\ upload.tasks[1].error # <<>>
    /\ upload.tasks[2].error # <<>>

\* The files of a batch that have a file name.
Named(files) == SelectSeq(files, LAMBDA f : f # <<>>)

\* C15: when an upload_many call returns or raises, every file with a name
\* has its task and every task is in a terminal state (it returned or it
\* raised); no task is left running once the call has ended.
C15_AllTasksTerminal ==
    /\ upload.ended =>
           /\ Len(upload.tasks) = Len(Named(upload.files))
           /\ UploadedOk \cup UploadedBad = DOMAIN upload.tasks
    /\ \A p \in Procs : pc[p] # "upload" => tasks[p] = <<>>

\* C15 witness: one task has failed (its request got no response) while a
\* sibling task of the same call is still waiting for its byte transfer.
C15_Witness ==
    \E p \in Procs : \E i, j \in DOMAIN tasks[p] :
        /\ pc[p] = "upload"
        /\ tasks[p][i].state = "failed"
        /\ tasks[p][i].error = TimeoutText
        /\ tasks[p][j].state = "put"

\* The rows the request answered last left in the store.
LastRows == { r \in store : r.req = last.req }

\* A code as the generator of the views makes it: LENGTH_SHORT characters of
\* the alphabet.
GeneratedCode(code) ==
    /\ Len(code) = SHORT_AUTO_GENERATE_LENGTH
    /\ \A i \in 1..Len(code) : code[i] \in ALPHABET

\* C16: an ingestion whose upload_many returned k items leaves exactly k new
\* rows, one per item, each under a generated code and with the item's
\* disk_path as its original, also when other requests commit codes while it
\* runs (an allocation that used up its tries, GenerationExhausted, set
\* aside).
C16_OneEntryPerUpload ==
    ( /\ last.entry = "files"
      /\ last.result \notin {"NoToken", "StorageError",
                             "GenerationExhausted"} ) =>
        /\ Cardinality(LastRows) = Len(last.items)
        /\ \A i \in DOMAIN last.items : \E r \in LastRows :
               r.original = last.items[i].disk_path
        /\ \A r \in LastRows : GeneratedCode(r.short)

\* C17: when every upload of an ingestion failed, files_view answers with the
\* storage error; no task of the request is started again, no warm-up pass
\* runs, and the request leaves no row.
C17_TotalFailureSurfaces ==
    ( /\ last.entry = "files"
      /\ upload.req = last.req
      /\ upload.ended
      /\ upload.tasks # <<>>
      /\ UploadedOk = {} ) =>
        /\ last.result = "StorageError"
        /\ upload.raised
        /\ pc[last.req] = "done"
        /\ tasks[last.req] = <<>>
        /\ warm = NoWarm
        /\ LastStoredNothing

\* C17 witness: an ingestion whose uploads all failed was answered with the
\* storage error while the store held the rows of an earlier request.
C17_Witness ==
    /\ last.entry = "files"
    /\ last.result = "StorageError"
    /\ upload.req = last.req
    /\ upload.tasks # <<>>
    /\ store # {}

\* C18: the warm-up pass never changes the outcome of the ingestion: whichever
\* of its fetches failed, every item upload_many returned goes on to
\* _create_short_links, the request ends as _create_short_links ends, and if
\* no commit was rejected and the tries were not used up it ends with one row
\* per item.
C18_WarmupNeverFails ==
    (last.entry = "files" /\ warm.req = last.req) =>
        /\ last.result \in {"ok", "IntegrityError", "GenerationExhausted"}
        /\ upload.req = last.req
        /\ last.items = upload.items
        /\ (last.rejects = 0 /\ last.result # "GenerationExhausted") =>
               /\ last.result = "ok"
               /\ { r.original : r \in LastRows } = Range(warm.paths)
               /\ Cardinality(LastRows) = Len(warm.paths)

\* C18 witness: every fetch of the warm-up pass failed, and the ingestion
\* ended with one row per uploaded file.
C18_Witness ==
    /\ last.entry = "files"
    /\ warm.req = last.req
    /\ warm.failed # {}
    /\ warm.failed = DOMAIN warm.paths
    /\ last.result = "ok"
    /\ Cardinality(LastRows) = Len(warm.paths)

\* The request answered last went through _serve_yadisk_path.
LastDownload ==
    /\ last.entry = "resolve"
    /\ answer.kind = "StoragePath"
    /\ answer.result # "ServerError"

\* C19: every download fetches its href anew, once; if the href fetch fails,
\* if the upstream GET gets no response, or if upstream answers with a status
\* of 400 or more, the download ends with UpstreamError (502) after that one
\* attempt, no step having been made twice and no body byte forwarded.
C19_UpstreamErrorSingleAttempt ==
    LastDownload =>
        /\ answer.hrefFetches = 1
        /\ answer.upstreamGets <= 1
        /\ ( \/ answer.hrefError # NoError
             \/ /\ answer.upstreamGets = 1
                /\ (answer.status = NoResponse \/ answer.status >= 400) ) =>
               /\ answer.result = "UpstreamError"
               /\ ~ answer.forwarded
        /\ answer.hrefError # NoError => answer.upstreamGets = 0

\* C19 witness: the href was fetched, upstream answered 404, and the download
\* ended with UpstreamError.
C19_Witness ==
    /\ LastDownload
    /\ answer.hrefError = NoError
    /\ answer.upstreamGets = 1
    /\ answer.status = 404
    /\ answer.result = "UpstreamError"

\* Every storage path a request has composed and that is still on record: the
\* paths of its running tasks, of the call that ended last, and of its rows.
PathsOf(p) ==
    { tasks[p][i].path : i \in DOMAIN tasks[p] }
    \cup (IF upload.req = p
          THEN { upload.tasks[i].path : i \in DOMAIN upload.tasks } ELSE {})
    \cup { r.original : r \in { x \in store : x.req = p
                                               /\ ~ ExternalUrl(x.original) } }

\* No two tasks of the sequence ts have the same path.
DistinctPaths(ts) ==
    \A i, j \in DOMAIN ts : i # j => ts[i].path # ts[j].path

\* The characters of a filesystem-safe name.
FilesystemSafe == ALPHABET \cup {"_", ".", "-"}

\* The number of hexadecimal digits of a token.
TokenLength == Len(Uuid4Hex(0))

\* path is base_dir, "/", a token of hexadecimal digits, "_", and a non-empty
\* name of filesystem-safe characters.
HasShape(path, base_dir) ==
    LET n == Len(base_dir)
        u == TokenLength
    IN  /\ Len(path) > n + u + 2
        /\ SubSeq(path, 1, n) = base_dir
        /\ path[n + 1] = "/"
        /\ \A i \in (n + 2)..(n + u + 1) : path[i] \in Range(HexDigits)
        /\ path[n + u + 2] = "_"
        /\ \A i \in (n + u + 3)..Len(path) : path[i] \in FilesystemSafe

\* File names that put the sanitising to work.
ShapeNames ==
    { fA, fSpaced, fBad, <<".", ".", "/", "x">>, <<" ", "a", ".", "t", " ">>,
      <<"_", "?", ".">> }

\* The values uuid4().hex takes in the model.
Tokens == { Uuid4Hex(n) : n \in 0..(Len(HexDigits) * Len(HexDigits) - 1) }

\* compose_path gives every one of these names, under every token, a path of
\* the shape.
ShapeNamesHaveShape ==
    \A name \in ShapeNames : \A uid \in Tokens :
        HasShape(compose_path(BaseDir, name, uid), BaseDir)

\* C20: two compose_path calls with the same base_dir yield two distinct
\* paths, within one upload batch and across concurrent requests, the display
\* names being equal or not; and every path has the shape
\* <base_dir>/<token>_<sanitised name>.
C20_DistinctPaths ==
    /\ \A p \in Procs : DistinctPaths(tasks[p])
    /\ DistinctPaths(upload.tasks)
    /\ LET paths == [ p \in Procs |-> PathsOf(p) ]
       IN  /\ \A p, q \in Procs : p < q => paths[p] \cap paths[q] = {}
           /\ \A p \in Procs : \A path \in paths[p] : HasShape(path, BaseDir)
    /\ ShapeNamesHaveShape

\* C20 witness: two files of one batch with the same display name were
\* uploaded under two paths, and another request's row holds a third path of
\* that name.
C20_Witness ==
    /\ upload.ended
    /\ Len(upload.tasks) = 2
    /\ upload.tasks[1].filename = upload.tasks[2].filename
    /\ upload.tasks[1].path # upload.tasks[2].path
    /\ \E r \in store : r.req # upload.req /\ ~ ExternalUrl(r.original)

\* The request answered last carried a candidate that is not empty and is
\* empty after trimming surrounding whitespace.
LastBlank ==
    /\ last.entry \in {"save", "api", "index"}
    /\ last.target # NoTarget
    /\ last.cand # NoCandidate
    /\ NormalizeShort(last.cand) = NoCandidate

\* C21: an explicit candidate that is empty after trimming surrounding
\* whitespace is treated as no candidate: the allocation (for save, one given
\* a generator; tries used up set aside) commits exactly one row under a
\* generated code, and no row with an empty or blank code is stored.
C21_BlankCandidateGenerates ==
    ( /\ LastBlank
      /\ last.entry = "save" => last.hasGen
      /\ last.result # "GenerationExhausted" ) =>
        /\ last.result = "ok"
        /\ Cardinality(LastRows) = 1
        /\ \A r \in LastRows : GeneratedCode(r.short)
        /\ \A r \in store : NormalizeShort(r.short) # NoCandidate

\* The part of C21 that URLMap.save satisfies: given a generator, a blank
\* candidate ends with one row under a code the generator returned.
C21_SaveBlankGenerates ==
    ( /\ LastBlank
      /\ last.entry = "save"
      /\ last.hasGen
      /\ last.result # "GenerationExhausted" ) =>
        /\ last.result = "ok"
        /\ Cardinality(LastRows) = 1
        /\ \A r \in LastRows : GeneratedCode(r.short)

\* index_view stored the blank candidate as the code.
C21_IndexStoresBlank ==
    /\ LastBlank
    /\ last.entry = "index"
    /\ last.result = "ok"
    /\ \E r \in LastRows : r.short = last.cand

\* A status of the 2xx class.
Is2xx(status) == status >= 200 /\ status <= 299

\* An upload_file task that failed stays as it is until its call ends: it
\* sends no further request, a byte transfer in particular.
C22_FailedTaskStops ==
    [][ \A p \in Procs : \A i \in DOMAIN tasks[p] :
          (tasks[p][i].state = "failed" /\ tasks'[p] # <<>>) =>
              tasks'[p][i] = tasks[p][i] ]_vars

\* The part of C22 the code satisfies: a response of 400 or more to the
\* upload-href request fails the task, a failed href request is not followed
\* by the byte transfer, and the byte transfer succeeds exactly on 201 and 202.
C22_ErrorStatusesFail ==
    /\ (transfer.step = "href" /\ transfer.status >= 400) =>
           transfer.state = "failed"
    /\ transfer.step = "href" => transfer.state \in {"put", "failed"}
    /\ transfer.step = "put" =>
           (transfer.state = "done" <=> transfer.status \in {201, 202})
    /\ transfer.step = "put" => transfer.state \in {"done", "failed"}

\* C22: every response to an upload-href request whose status is not 2xx (3xx
\* as well as 4xx and 5xx) fails the upload_file task with the storage error,
\* the byte transfer not being issued; and the byte transfer succeeds only on
\* status 201 or 202.
C22_Non2xxHrefFails ==
    /\ ( /\ transfer.step = "href"
         /\ transfer.status # NoResponse
         /\ ~ Is2xx(transfer.status) ) =>
           transfer.state = "failed"
    /\ transfer.step = "put" =>
           (transfer.state = "done" => transfer.status \in {201, 202})

\* A 3xx response with an href in its body let the task go on to the byte
\* transfer.
C22_RedirectAccepted ==
    /\ transfer.step = "href"
    /\ transfer.status = 302
    /\ transfer.state = "put"

\* The request answered last was a URLMap.save in generated mode.
LastSaveGenerated ==
    /\ last.entry = "save"
    /\ NormalizeShort(last.cand) = NoCandidate

\* While a generated-mode save runs it has called the generator fewer than
\* max(1, attempts) times (tries counts the calls made), so the call it makes
\* next is at most the max(1, attempts)-th; and it ends with exactly one new
\* row or with GenerationExhausted and none.
SaveGenerateBounded ==
    /\ \A p \in Procs :
           pc[p] = "save_generate" =>
               /\ tries[p] < Max(1, attempts[p])
               /\ rejects[p] <= tries[p]
    /\ LastSaveGenerated =>
           /\ last.result \in {"ok", "GenerationExhausted"}
           /\ last.rejects <= Max(1, last.attempts)
           /\ last.result = "ok" => Cardinality(LastRows) = 1
           /\ last.result = "GenerationExhausted" => LastRows = {}

\* C23: a generated-mode URLMap.save makes at most max(1, attempts) calls to
\* the generator and always terminates, with exactly one newly committed row
\* or with GenerationExhausted, whatever the generator returns (reserved
\* words, occupied codes, free codes in any order) and also for attempts = 0.
C23_GeneratedSaveTerminates ==
    /\ [] SaveGenerateBounded
    /\ \A p \in Procs : (pc[p] = "save_generate") ~> (pc[p] = "done")

\* C23 witness: a save with a generator and a budget of more than one try
\* ended with GenerationExhausted after a mix of draws: a commit rejected for
\* an occupied code and a reserved word.
C23_Witness ==
    /\ LastSaveGenerated
    /\ last.hasGen
    /\ last.attempts > 1
    /\ last.result = "GenerationExhausted"
    /\ last.rejects >= 1
    /\ last.rejects < last.attempts

\* The rows request p has in the store.
RowsOf(p) == { r \in store : r.req = p }

\* C24: the rows of one ingestion batch are committed all at once or not at
\* all: while _create_short_links runs none of its rows is in the store, and
\* after the request the store holds one row per item (the request ended ok)
\* or, the commit or a flush having been rejected or the tries used up, none;
\* never some of them.
C24_BatchAllOrNothing ==
    /\ \A p \in Procs :
           pc[p] \in {"files_gen", "files_commit"} => RowsOf(p) = {}
    /\ last.entry = "files" =>
           /\ Cardinality(LastRows) \in {0, Len(last.items)}
           /\ last.items # <<>> =>
                  (last.result = "ok" <=>
                       Cardinality(LastRows) = Len(last.items))
           /\ LastRows # {} =>
                  { r.original : r \in LastRows } =
                      { last.items[i].disk_path : i \in DOMAIN last.items }

\* C24 witness: a batch of two items had codes for both in its session, a
\* concurrent request committed one of the two codes, the batch's commit was
\* rejected, and none of its rows is stored.
C24_Witness ==
    /\ last.entry = "files"
    /\ Len(last.items) = 2
    /\ last.result = "IntegrityError"
    /\ last.overlap
    /\ LastRows = {}
    /\ store # {}

====
